---------------------------- MODULE Spec2Model ----------------------------
(***************************************************************************)
(* Model of the NEGFC MCMC driver of VIP (src/vip/negfc/mcmc_opt.py):      *)
(* the prior / posterior evaluators (lnprior, lnprob), the step loop of    *)
(* run_mcmc_astrometry with its dynamically sized chain, its check         *)
(* schedule and its Gelman-Rubin convergence bookkeeping, and              *)
(* chain_zero_truncated.                                                   *)
(*                                                                         *)
(* Floats are modelled by integers.  np.inf / -np.inf are a large positive *)
(* / negative integer, so that the source's comparisons keep their         *)
(* meaning; nan is a distinguished value for which every comparison is     *)
(* false.  rhat values are in hundredths, burnin in tenths.                *)
(***************************************************************************)
EXTENDS Integers, Sequences, FiniteSets, TLC

VARIABLES
    \* ---- run_mcmc_astrometry: arguments
    niteration_min, niteration_limit, niteration_supp, check_maxgap,
    rhat_count_threshold, burnin, save,
    \* ---- run_mcmc_astrometry: locals
    pc, k, res, itermin, geom, lastcheck, konvergence, rhat_count, rhat,
    stop, chain, isamples,
    \* ---- run_mcmc_astrometry: observable effects (the warning of line
    \*      433, the exception that left the run, if any)
    checkpoints, reported, ret, warned, exc,
    \* ---- history of the run (which steps fired a check, which evaluated
    \*      the Gelman-Rubin test, how many evaluations passed in a row)
    fired, tested, streak,
    \* ---- lnprior / lnprob evaluation
    fn, modelParameters, bounds, lp, lnlike_value, lnlike_calls, out,
    \* ---- chain_zero_truncated applied to an arbitrary chain
    tinput, tchain, tprev, tcount,
    \* ---- gelman_rubin called on an array of a given shape
    gr_shape, gr_result,
    \* ---- the construction of the independent samples on an arbitrary chain
    s_nwalkers, s_chain, s_isamples, s_pc,
    \* ---- the bounds given to the sampler
    b_bounds, b_initialState, b_annulus_width, b_args, b_pc,
    \* ---- the unpacking of modelParameters in lnprior and lnlike
    sh_fn, sh_params, sh_pc, sh_printed, sh_raised,
    \* ---- confidence on one histogram
    cf_n, cf_cfd, cf_sort, cf_pc, cf_val_max, cf_interval,
    \* ---- PPMedianSub.run
    pp_self_dataset, pp_dataset_arg, pp_mode, pp_full_output, pp_results,
    pp_pc, pp_dataset, pp_calls, pp_res, pp_frame_final, pp_registered,
    \* ---- gelman_rubin_from_chain
    w_chain, w_burnin, w_part1, w_part2, w_pc

driverVars == <<niteration_min, niteration_limit, niteration_supp,
                check_maxgap, rhat_count_threshold, burnin, save,
                pc, k, res, itermin, geom, lastcheck, konvergence,
                rhat_count, rhat, stop, chain, isamples,
                checkpoints, reported, ret, warned, exc, fired, tested,
                streak>>

evalVars == <<fn, modelParameters, bounds, lp, lnlike_value, lnlike_calls, out>>

truncVars == <<tinput, tchain, tprev, tcount>>

grVars == <<gr_shape, gr_result>>

sampVars == <<s_nwalkers, s_chain, s_isamples, s_pc>>

bndVars == <<b_bounds, b_initialState, b_annulus_width, b_args, b_pc>>

shapeVars == <<sh_fn, sh_params, sh_pc, sh_printed, sh_raised>>

confVars == <<cf_n, cf_cfd, cf_sort, cf_pc, cf_val_max, cf_interval>>

ppVars == <<pp_self_dataset, pp_dataset_arg, pp_mode, pp_full_output,
            pp_results, pp_pc, pp_dataset, pp_calls, pp_res, pp_frame_final,
            pp_registered>>

winVars == <<w_chain, w_burnin, w_part1, w_part2, w_pc>>

\* the variables of the functions modelled on their own
pureVars == <<evalVars, truncVars, grVars, sampVars, bndVars, shapeVars,
              confVars, ppVars, winVars>>

vars == <<driverVars, pureVars>>

----------------------------------------------------------------------------
(* Bounds of the model *)

MaxLimit == 5
MaxSupp == 2
MaxItermin == 3
MaxGap == 2
MaxRhatCount == 1
MaxVal == 1
MaxLen == 4

----------------------------------------------------------------------------
(* Float values *)

Inf == 1000000

NegInf == 0 - Inf

NaN == 0 - 424242

\* a <= b on floats: false as soon as one side is nan
LeF(a, b) == a # NaN /\ b # NaN /\ a <= b

isinf(x) == x = Inf \/ x = NegInf

Min(a, b) == IF a <= b THEN a ELSE b

----------------------------------------------------------------------------
(* Program constants *)

dim == 3

nwalkers == 2

DefaultMaxGap == 10000

rhat_threshold == 101

----------------------------------------------------------------------------
(* The chain: a sequence over steps (step index i is element i+1); each    *)
(* element is the ensemble at that step, walker -> <<r, theta, flux>>.     *)

\* one step of np.zeros([nwalkers, ., dim])
ZeroPos == [w \in 1..nwalkers |-> <<0, 0, 0>>]

\* ensembles the sampler can yield (res[0]): one with zeros in other
\* walkers and parameters but not in walker 0's radial parameter, one in
\* which walker 0's radial parameter is exactly 0.0
Positions ==
    { [w \in 1..nwalkers |-> IF w = 1 THEN <<1, 0, 1>> ELSE <<0, 1, 1>>],
      [w \in 1..nwalkers |-> IF w = 1 THEN <<0, 1, 1>> ELSE <<1, 1, 1>>] }

\* content of np.empty([nwalkers,1,dim]): whatever the allocator left there
Uninitialized == Positions \cup {ZeroPos}

\* np.zeros([nwalkers, n, dim])
Zeros(n) == [i \in 1..n |-> ZeroPos]

\* the steps at which every value of every walker is zero
ZeroStepsOfAllWalkers(c) == {i \in 0..(Len(c) - 1) : c[i + 1] = ZeroPos}

\* np.where(chain[0,:,0] == 0.0)[0]: the step indices (0-based) at which
\* walker 0's first parameter is exactly 0.0
ZeroSteps(c) == {i \in 0..(Len(c) - 1) : c[i + 1][1][1] = 0}

SetMin(S) == CHOOSE x \in S : \A y \in S : x <= y

SetMax(S) == CHOOSE x \in S : \A y \in S : x >= y

\* idxzero taken at the last zero step instead of the first
IdxZeroLast(c) == IF ZeroSteps(c) # {} THEN SetMax(ZeroSteps(c)) ELSE Len(c)

\* idxzero of chain_zero_truncated and of the sample construction
IdxZero(c) == IF ZeroSteps(c) # {} THEN SetMin(ZeroSteps(c)) ELSE Len(c)

\* chain[:, a:b, :] for 0 <= a, with numpy's clipping of b
Slice(c, a, b) == SubSeq(c, a + 1, Min(b, Len(c)))

chain_zero_truncated(c) == Slice(c, 0, IdxZero(c))

\* the number of steps kept taken as a tenth of the filled steps whatever
\* the number of walkers
SampleIdxTenth(nw, idxzero) == idxzero \div 10

\* line 575: np.amin([np.floor(2e05/nwalkers), np.floor(0.1*idxzero)])
SampleIdx(nw, idxzero) == Min(200000 \div nw, idxzero \div 10)

\* lines 569-579: the independent samples of a chain of nw walkers
ExtractSamples(c, nw) ==
    LET idxzero == IdxZero(c)
        idx == SampleIdx(nw, idxzero)
    IN  IF idx = 0 THEN Slice(c, 0, idxzero)
        ELSE Slice(c, idxzero - idx, idxzero)

\* lines 569-579: the independent samples
Isamples(c) == ExtractSamples(c, nwalkers)

----------------------------------------------------------------------------
(* The check schedule *)

RECURSIVE Pow(_, _)
Pow(b, e) == IF e = 0 THEN 1 ELSE b * Pow(b, e - 1)

\* ceil(a / b) for a >= 0, b > 0
CeilDiv(a, b) == (a + b - 1) \div b

\* ceil(itermin*(1+fraction)**geom) with fraction = 0.3, computed exactly
\* as ceil(im * 13^g / 10^g); the integer and fractional parts of 13^g/10^g
\* are multiplied separately so that no product exceeds 32 bits (g <= 8)
GeomCeil(im, g) ==
    IF im = 0 THEN 0
    ELSE LET A == Pow(13, g)
             B == Pow(10, g)
         IN  im * (A \div B) + CeilDiv(im * (A % B), B)

\* line 513: np.amin([ceil(itermin*(1+fraction)**geom), lastcheck+floor(maxgap)])
Criterion(im, g, last, maxgap) == Min(GeomCeil(im, g), last + maxgap)

\* lines 535-536, burnin in tenths
Threshold0(b, kk) == (b * kk) \div 10

\* a third of the steps after the burn-in instead of a quarter
Threshold1Third(b, kk) == ((10 - b) * kk) \div 30

Threshold1(b, kk) == ((10 - b) * kk) \div 40

\* the second window taken right after the first
Part2Adjacent(c, b, kk) ==
    Slice(c, Threshold0(b, kk) + Threshold1(b, kk),
          Threshold0(b, kk) + 2 * Threshold1(b, kk))

\* lines 249 and 539: chain[:, threshold0:threshold0+threshold1, j]
Part1(c, b, kk) ==
    Slice(c, Threshold0(b, kk), Threshold0(b, kk) + Threshold1(b, kk))

\* lines 250 and 540:
\* chain[:, threshold0+3*threshold1:threshold0+4*threshold1, j]
Part2(c, b, kk) ==
    Slice(c, Threshold0(b, kk) + 3 * Threshold1(b, kk),
          Threshold0(b, kk) + 4 * Threshold1(b, kk))

\* (rhat <= rhat_threshold).all()
RhatOK(r) == \A j \in 1..dim : LeF(r[j], rhat_threshold)

\* rhat vectors the Gelman-Rubin test can give on two non-empty windows
\* (hundredths): all three below the threshold, or one parameter above it
RhatVectors == {<<100, 100, 100>>, <<100, 102, 100>>}

\* lines 535-543: rhat for each parameter; two empty windows give nan
GelmanRubinOutcomes(b, kk) ==
    IF Threshold1(b, kk) = 0 THEN {[j \in 1..dim |-> NaN]}
    ELSE RhatVectors

\* lines 431-433: the warning is printed
IterminWarning(nmin, limit) == nmin > limit

\* lines 431-433
EffectiveItermin(nmin, limit) == IF nmin > limit THEN 0 ELSE nmin

\* line 444
nIterations == niteration_limit + niteration_supp

\* number of steps stored in the chain so far
Recorded == IF pc \in {"grow", "store"} THEN k ELSE k + 1

----------------------------------------------------------------------------
(* run_mcmc_astrometry: decisions of the step loop *)

\* the sampler yielding one step too many
SamplerYieldsOneMore(kk, n) == kk + 1 <= n

\* lines 486-487: the sampler yields a step while fewer than nIterations
\* steps have been yielded
SamplerYields(kk, n) == kk + 1 < n

\* the chain extended only when step kk lies beyond the slot after its last
GrownLate(c, kk) == IF kk > Len(c) THEN c \o Zeros(2 * Len(c)) ELSE c

\* lines 502-505: the chain is extended with np.zeros([nwalkers,2*s,dim])
\* when step kk does not fit
Grown(c, kk) == IF kk + 1 > Len(c) THEN c \o Zeros(2 * Len(c)) ELSE c

\* line 507: chain[:,k] = res[0]
Stored(c, kk, r) == [c EXCEPT ![kk + 1] = r]

CheckpointedAlways(sv, cps, kk) == cps \cup {kk}

\* lines 526-531: the steps whose snapshot <output_file>_temp_k<k> exists
\* once the check fired at step kk
Checkpointed(sv, cps, kk) == IF sv THEN cps \cup {kk} ELSE cps

\* the test evaluated without regard to the minimum number of steps
ShouldTestNoMin(kk, im, konv) == konv = Inf

\* the test evaluated again after convergence has been declared
ShouldTestAfterConvergence(kk, im, konv) == (kk + 1) >= im

\* line 534
ShouldTest(kk, im, konv) == (kk + 1) >= im /\ konv = Inf

\* lines 548-556: the consecutive-pass counter and the declaration of
\* convergence, given whether all rhat are below the threshold
RhatDecision(ok, count, thr) ==
    IF ok /\ count < thr THEN [count |-> count + 1, declared |-> FALSE]
    ELSE IF ok /\ count >= thr THEN [count |-> count, declared |-> TRUE]
    ELSE [count |-> 0, declared |-> FALSE]

\* line 558
ShouldBreak(kk, st) == (kk + 1) >= st

\* line 562
ShouldReport(kk, n) == kk = n - 1

----------------------------------------------------------------------------
(* Inputs *)

Burnins == {0, 3}

CheckMaxGaps == (1..MaxGap) \cup {DefaultMaxGap}

lnprobIdle ==
    /\ fn = "none"
    /\ modelParameters = <<0, 0, 0>>
    /\ bounds = <<<<0, 0>>, <<0, 0>>, <<0, 0>>>>
    /\ lp = 0
    /\ lnlike_value = 0
    /\ lnlike_calls = 0
    /\ out = 0

truncIdle ==
    /\ tinput = <<>>
    /\ tchain = <<>>
    /\ tprev = <<>>
    /\ tcount = 0

\* the run is not started
driverIdle ==
    /\ niteration_min = 0
    /\ niteration_limit = 0
    /\ niteration_supp = 0
    /\ check_maxgap = DefaultMaxGap
    /\ rhat_count_threshold = 0
    /\ burnin = 0
    /\ save = FALSE
    /\ pc = "idle"
    /\ k = -1
    /\ res = ZeroPos
    /\ itermin = 0
    /\ geom = 0
    /\ lastcheck = 0
    /\ konvergence = Inf
    /\ rhat_count = 0
    /\ rhat = [j \in 1..dim |-> 0]
    /\ stop = Inf
    /\ chain = <<ZeroPos>>
    /\ isamples = <<>>
    /\ checkpoints = {}
    /\ reported = FALSE
    /\ ret = <<>>
    /\ fired = {}
    /\ tested = {}
    /\ streak = 0
    /\ warned = FALSE
    /\ exc = "none"

grIdle ==
    /\ gr_shape = <<>>
    /\ gr_result = "idle"

sampIdle ==
    /\ s_nwalkers = 0
    /\ s_chain = <<>>
    /\ s_isamples = <<>>
    /\ s_pc = "idle"

bndIdle ==
    /\ b_bounds = <<>>
    /\ b_initialState = <<0, 0, 0>>
    /\ b_annulus_width = 0
    /\ b_args = <<>>
    /\ b_pc = "idle"

shapeIdle ==
    /\ sh_fn = "none"
    /\ sh_params = [iterable |-> TRUE, val |-> <<>>]
    /\ sh_pc = "idle"
    /\ sh_printed = FALSE
    /\ sh_raised = "none"

confIdle ==
    /\ cf_n = <<>>
    /\ cf_cfd = 0
    /\ cf_sort = <<>>
    /\ cf_pc = "idle"
    /\ cf_val_max = 0
    /\ cf_interval = <<>>

ppIdle ==
    /\ pp_self_dataset = <<>>
    /\ pp_dataset_arg = <<>>
    /\ pp_mode = "fullfr"
    /\ pp_full_output = TRUE
    /\ pp_results = FALSE
    /\ pp_pc = "idle"
    /\ pp_dataset = <<>>
    /\ pp_calls = <<>>
    /\ pp_res = <<>>
    /\ pp_frame_final = <<>>
    /\ pp_registered = <<>>

winIdle ==
    /\ w_chain = <<>>
    /\ w_burnin = 0
    /\ w_part1 = <<>>
    /\ w_part2 = <<>>
    /\ w_pc = "idle"

\* every part of the model but those named in S is at rest
IdleExcept(S) ==
    /\ IF "driver" \in S THEN TRUE ELSE driverIdle
    /\ IF "eval" \in S THEN TRUE ELSE lnprobIdle
    /\ IF "trunc" \in S THEN TRUE ELSE truncIdle
    /\ IF "gr" \in S THEN TRUE ELSE grIdle
    /\ IF "samp" \in S THEN TRUE ELSE sampIdle
    /\ IF "bnd" \in S THEN TRUE ELSE bndIdle
    /\ IF "shape" \in S THEN TRUE ELSE shapeIdle
    /\ IF "conf" \in S THEN TRUE ELSE confIdle
    /\ IF "pp" \in S THEN TRUE ELSE ppIdle
    /\ IF "win" \in S THEN TRUE ELSE winIdle

\* lines 426-446: the state at the head of the step loop
Init ==
    /\ niteration_min \in 0..MaxItermin
    /\ niteration_limit \in 0..MaxLimit
    /\ niteration_supp \in 0..MaxSupp
    /\ check_maxgap \in CheckMaxGaps
    /\ rhat_count_threshold \in 0..MaxRhatCount
    /\ burnin \in Burnins
    /\ save \in BOOLEAN
    /\ pc = "loop"
    /\ k = -1
    /\ res = ZeroPos
    /\ itermin = EffectiveItermin(niteration_min, niteration_limit)
    /\ geom = 0
    /\ lastcheck = 0
    /\ konvergence = Inf
    /\ rhat_count = 0
    /\ rhat = [j \in 1..dim |-> 0]
    /\ stop = Inf
    /\ chain \in {<<u>> : u \in Uninitialized}
    /\ isamples = <<>>
    /\ checkpoints = {}
    /\ reported = FALSE
    /\ ret = <<>>
    /\ fired = {}
    /\ tested = {}
    /\ streak = 0
    /\ warned = IterminWarning(niteration_min, niteration_limit)
    /\ exc = "none"
    /\ IdleExcept({"driver"})

inputVars == <<niteration_min, niteration_limit, niteration_supp,
               check_maxgap, rhat_count_threshold, burnin, save, itermin,
               warned>>

convVars == <<konvergence, rhat_count, rhat, stop, tested, streak>>

----------------------------------------------------------------------------
(* run_mcmc_astrometry: the step loop *)

\* lines 486-487: the sampler advances the walkers and yields step k
Sample ==
    /\ pc = "loop"
    /\ SamplerYields(k, nIterations)
    /\ k' = k + 1
    /\ res' \in Positions
    /\ pc' = "grow"
    /\ UNCHANGED <<inputVars, exc, convVars, geom, lastcheck, chain, isamples,
                   checkpoints, reported, ret, fired, pureVars>>

\* lines 486-487: the sampler has yielded nIterations steps
LoopExhausted ==
    /\ pc = "loop"
    /\ ~SamplerYields(k, nIterations)
    /\ pc' = "after"
    /\ UNCHANGED <<inputVars, exc, convVars, k, res, geom, lastcheck, chain,
                   isamples, checkpoints, reported, ret, fired, pureVars>>

\* lines 502-505
Grow ==
    /\ pc = "grow"
    /\ chain' = Grown(chain, k)
    /\ pc' = "store"
    /\ UNCHANGED <<inputVars, exc, convVars, k, res, geom, lastcheck, isamples,
                   checkpoints, reported, ret, fired, pureVars>>

\* line 507
Store ==
    /\ pc = "store"
    /\ chain' = Stored(chain, k, res)
    /\ pc' = "check"
    /\ UNCHANGED <<inputVars, exc, convVars, k, res, geom, lastcheck, isamples,
                   checkpoints, reported, ret, fired, pureVars>>

\* lines 513-516: k does not meet the criterion
CheckSkip ==
    /\ pc = "check"
    /\ k # Criterion(itermin, geom, lastcheck, check_maxgap)
    /\ pc' = "brk"
    /\ UNCHANGED <<inputVars, exc, convVars, k, res, geom, lastcheck, chain,
                   isamples, checkpoints, reported, ret, fired, pureVars>>

\* lines 516-531: the check fires and writing the checkpoint raises
CheckpointRaises ==
    /\ pc = "check"
    /\ k = Criterion(itermin, geom, lastcheck, check_maxgap)
    /\ save
    /\ geom' = geom + 1
    /\ lastcheck' = k
    /\ fired' = fired \cup {k}
    /\ pc' = "raised"
    /\ exc' = "IOError at checkpoint"
    /\ UNCHANGED <<inputVars, convVars, k, res, chain, isamples, checkpoints,
                   reported, ret, pureVars>>

\* lines 516-534: the check fires, the Gelman-Rubin test is not evaluated
CheckNoTest ==
    /\ pc = "check"
    /\ k = Criterion(itermin, geom, lastcheck, check_maxgap)
    /\ ~ShouldTest(k, itermin, konvergence)
    /\ geom' = geom + 1
    /\ lastcheck' = k
    /\ fired' = fired \cup {k}
    /\ checkpoints' = Checkpointed(save, checkpoints, k)
    /\ pc' = "brk"
    /\ UNCHANGED <<inputVars, exc, convVars, k, res, chain, isamples, reported,
                   ret, pureVars>>

\* lines 516-556: the check fires and the Gelman-Rubin test is evaluated
CheckTest ==
    /\ pc = "check"
    /\ k = Criterion(itermin, geom, lastcheck, check_maxgap)
    /\ ShouldTest(k, itermin, konvergence)
    /\ geom' = geom + 1
    /\ lastcheck' = k
    /\ fired' = fired \cup {k}
    /\ checkpoints' = Checkpointed(save, checkpoints, k)
    /\ \E r \in GelmanRubinOutcomes(burnin, k) :
          LET d == RhatDecision(RhatOK(r), rhat_count, rhat_count_threshold)
          IN  /\ rhat' = r
              /\ rhat_count' = d.count
              /\ konvergence' = IF d.declared THEN k ELSE konvergence
              /\ stop' = IF d.declared THEN k + niteration_supp ELSE stop
              /\ streak' = IF RhatOK(r) THEN streak + 1 ELSE 0
    /\ tested' = tested \cup {k}
    /\ pc' = "brk"
    /\ UNCHANGED <<inputVars, exc, k, res, chain, isamples, reported, ret,
                   pureVars>>

\* lines 558-560: the loop is left
Break ==
    /\ pc = "brk"
    /\ ShouldBreak(k, stop)
    /\ pc' = "after"
    /\ UNCHANGED <<inputVars, exc, convVars, k, res, geom, lastcheck, chain,
                   isamples, checkpoints, reported, ret, fired, pureVars>>

\* lines 558-560: the loop goes on
Continue ==
    /\ pc = "brk"
    /\ ~ShouldBreak(k, stop)
    /\ pc' = "loop"
    /\ UNCHANGED <<inputVars, exc, convVars, k, res, geom, lastcheck, chain,
                   isamples, checkpoints, reported, ret, fired, pureVars>>

\* line 562 when the loop body never ran: k is not bound
AfterUnbound ==
    /\ pc = "after"
    /\ k = -1
    /\ pc' = "raised"
    /\ exc' = "NameError"
    /\ UNCHANGED <<inputVars, convVars, k, res, geom, lastcheck, chain,
                   isamples, checkpoints, reported, ret, fired, pureVars>>

\* lines 562-602: the report, the samples, and writing MCMC_results raises
AfterSaveRaises ==
    /\ pc = "after"
    /\ k # -1
    /\ save
    /\ reported' = ShouldReport(k, nIterations)
    /\ isamples' = Isamples(chain)
    /\ pc' = "raised"
    /\ exc' = "IOError at MCMC_results"
    /\ UNCHANGED <<inputVars, convVars, k, res, geom, lastcheck, chain,
                   checkpoints, ret, fired, pureVars>>

\* lines 562-614: the report, the samples and the returned chain
AfterReturn ==
    /\ pc = "after"
    /\ k # -1
    /\ reported' = ShouldReport(k, nIterations)
    /\ isamples' = Isamples(chain)
    /\ ret' = chain_zero_truncated(chain)
    /\ pc' = "done"
    /\ UNCHANGED <<inputVars, exc, convVars, k, res, geom, lastcheck, chain,
                   checkpoints, fired, pureVars>>

Next ==
    \/ Sample
    \/ LoopExhausted
    \/ Grow
    \/ Store
    \/ CheckSkip
    \/ CheckpointRaises
    \/ CheckNoTest
    \/ CheckTest
    \/ Break
    \/ Continue
    \/ AfterUnbound
    \/ AfterSaveRaises
    \/ AfterReturn

Spec == Init /\ [][Next]_vars


----------------------------------------------------------------------------
(* lnprior, lnprob *)

\* the lower bounds taken as open
lnpriorOpen(mp, b) ==
    IF /\ b[1][1] < mp[1] /\ LeF(mp[1], b[1][2])
       /\ b[2][1] < mp[2] /\ LeF(mp[2], b[2][2])
       /\ b[3][1] < mp[3] /\ LeF(mp[3], b[3][2])
    THEN 0
    ELSE NegInf

\* lines 53-58
lnprior(mp, b) ==
    IF /\ LeF(b[1][1], mp[1]) /\ LeF(mp[1], b[1][2])
       /\ LeF(b[2][1], mp[2]) /\ LeF(mp[2], b[2][2])
       /\ LeF(b[3][1], mp[3]) /\ LeF(mp[3], b[3][2])
    THEN 0
    ELSE NegInf

\* lnlike evaluated before the prior is looked at
lnprobEager(mp, b, v) ==
    LET l == lnprior(mp, b)
    IN  IF isinf(l) THEN [lp |-> l, out |-> NegInf, calls |-> 1]
        ELSE [lp |-> l, out |-> l + v, calls |-> 1]

\* lines 161-168: the value returned and the number of calls of lnlike,
\* v being what lnlike returns for these parameters
lnprob(mp, b, v) ==
    LET l == lnprior(mp, b)
    IN  IF isinf(l) THEN [lp |-> l, out |-> NegInf, calls |-> 0]
        ELSE [lp |-> l, out |-> l + v, calls |-> 1]

\* values of the parameters proposed by the sampler, and of the bounds
ParamVals == ((0 - 1)..(MaxVal + 1)) \cup {NaN}

BoundVals == 0..MaxVal

\* lines 116-117: -0.5 * sum of absolute values
LnlikeVals == {0 - 3, 0 - 1, 0}

\* a parameter vector and bounds handed to the evaluators
InitEval ==
    /\ IdleExcept({"eval"})
    /\ fn = "none"
    /\ modelParameters \in [1..dim -> ParamVals]
    /\ bounds \in [1..dim -> BoundVals \X BoundVals]
    /\ lp = 0
    /\ lnlike_value = 0
    /\ lnlike_calls = 0
    /\ out = 0

\* lnprior(modelParameters, bounds) is called
lnpriorCall ==
    /\ fn = "none"
    /\ fn' = "lnprior"
    /\ out' = lnprior(modelParameters, bounds)
    /\ UNCHANGED <<modelParameters, bounds, lp, lnlike_value, lnlike_calls,
                   driverVars, truncVars, grVars, sampVars, bndVars,
                   shapeVars, confVars, ppVars, winVars>>

\* lnprob(modelParameters, bounds, ...) is called
lnprobCall ==
    /\ fn = "none"
    /\ fn' = "lnprob"
    /\ \E v \in LnlikeVals :
          LET r == lnprob(modelParameters, bounds, v)
          IN  /\ lp' = r.lp
              /\ lnlike_calls' = lnlike_calls + r.calls
              /\ lnlike_value' = IF r.calls = 0 THEN lnlike_value ELSE v
              /\ out' = r.out
    /\ UNCHANGED <<modelParameters, bounds, driverVars, truncVars, grVars,
                   sampVars, bndVars, shapeVars, confVars, ppVars, winVars>>

NextEval == lnpriorCall \/ lnprobCall

SpecEval == InitEval /\ [][NextEval]_vars

----------------------------------------------------------------------------
(* chain_zero_truncated on arbitrary chains *)

RECURSIVE SeqsUpTo(_, _)
SeqsUpTo(S, n) ==
    IF n = 0 THEN {<<>>}
    ELSE LET shorter == SeqsUpTo(S, n - 1)
         IN  shorter \cup {Append(c, x) : c \in shorter, x \in S}

InitTrunc ==
    /\ IdleExcept({"trunc"})
    /\ tinput \in SeqsUpTo(Positions \cup {ZeroPos}, MaxLen)
    /\ tchain = tinput
    /\ tprev = <<>>
    /\ tcount = 0

\* chain = chain_zero_truncated(chain)
Truncate ==
    /\ tcount < 2
    /\ tprev' = tchain
    /\ tchain' = chain_zero_truncated(tchain)
    /\ tcount' = tcount + 1
    /\ UNCHANGED <<tinput, driverVars, evalVars, grVars, sampVars, bndVars,
                   shapeVars, confVars, ppVars, winVars>>

NextTrunc == Truncate

SpecTrunc == InitTrunc /\ [][NextTrunc]_vars

----------------------------------------------------------------------------
\* gelman_rubin, lines 172-219, on an array given by its shape

MaxRank == 3

MaxDim == 3

\* line 192: the order of Python on tuples of integers
RECURSIVE TupleLess(_, _)
TupleLess(s, t) ==
    IF s = <<>> THEN t # <<>>
    ELSE IF t = <<>> THEN FALSE
    ELSE IF s[1] # t[1] THEN s[1] < t[1]
    ELSE TupleLess(Tail(s), Tail(t))

\* lines 192-219: "ValueError" is the exception of line 193, "None" the
\* return of line 200 after the message of line 199, "R" the return of
\* line 219
gelman_rubin(shape) ==
    IF TupleLess(shape, <<2>>) THEN "ValueError"
    ELSE IF Len(shape) # 2 THEN "None"
    ELSE "R"

\* the shapes of the arrays handed to gelman_rubin
Shapes == UNION {[1..r -> 0..MaxDim] : r \in 0..MaxRank}

InitGR ==
    /\ IdleExcept({"gr"})
    /\ gr_shape \in Shapes
    /\ gr_result = "pending"

gelman_rubinCall ==
    /\ gr_result = "pending"
    /\ gr_result' = gelman_rubin(gr_shape)
    /\ UNCHANGED <<gr_shape, driverVars, evalVars, truncVars, sampVars,
                   bndVars, shapeVars, confVars, ppVars, winVars>>

NextGR == gelman_rubinCall

SpecGR == InitGR /\ [][NextGR]_vars

----------------------------------------------------------------------------
\* The construction of the independent samples, lines 569-579, on chains
\* of any filling and for any number of walkers. The slices of lines 577
\* and 579 are taken along the step axis, the same for every walker: the
\* ensembles keep the first nwalkers walkers, s_nwalkers is the number of
\* walkers that line 575 divides by.

MaxSteps == 21

LongSteps == 1000

\* a chain of n steps in which walker w holds <<1, i, w>> at step i, and
\* <<0, i, w>> at the steps of Z
TaggedChain(n, Z) ==
    [i \in 1..n |->
        [w \in 1..nwalkers |-> <<IF (i - 1) \in Z THEN 0 ELSE 1, i - 1, w>>]]

\* the chains at line 569: filled to any step, with one or two zeros of
\* walker 0's radial parameter anywhere
SampleChains ==
    {TaggedChain(n, Z) : n \in 0..MaxSteps, Z \in {{}}} \cup
    UNION {{TaggedChain(n, {a, b}) : a \in 0..(n - 1), b \in 0..(n - 1)} :
               n \in 1..MaxSteps} \cup
    {TaggedChain(LongSteps, {}), TaggedChain(LongSteps + 3, {LongSteps})}

\* numbers of walkers: 2e05/nwalkers is 100000, 4000, 1 and below 1
WalkerCounts == {2, 50, 200000, 200001}

InitSamples ==
    /\ IdleExcept({"samp"})
    /\ s_nwalkers \in WalkerCounts
    /\ s_chain \in SampleChains
    /\ s_isamples = <<>>
    /\ s_pc = "pending"

ExtractCall ==
    /\ s_pc = "pending"
    /\ s_isamples' = ExtractSamples(s_chain, s_nwalkers)
    /\ s_pc' = "done"
    /\ UNCHANGED <<s_nwalkers, s_chain, driverVars, evalVars, truncVars,
                   grVars, bndVars, shapeVars, confVars, ppVars, winVars>>

NextSamples == ExtractCall

SpecSamples == InitSamples /\ [][NextSamples]_vars

----------------------------------------------------------------------------
\* The bounds given to the sampler, lines 447-470. The file holds both
\* sides of an unresolved merge at these lines: one derives the bounds
\* when none are given, the other hands the argument over as it is.

\* the value None of the argument bounds
None == <<>>

\* lines 451-454, for an even annulus_width (annulus_width/2. is exact)
DerivedBounds(is, w) ==
    << <<is[1] - (w \div 2), is[1] + (w \div 2)>>,
       <<is[2] - 10, is[2] + 10>>,
       <<0, 2 * is[3]>> >>

\* the (lo, hi) pairs a caller may give for one parameter
BoundPairs == {<<0, 1>>, <<1, 1>>, <<1, 0>>}

BoundsArgs == {None} \cup (BoundPairs \X BoundPairs \X BoundPairs)

InitialStates == {0, 5} \X {0, 350} \X {0 - 1, 0, 3}

AnnulusWidths == {0, 2, 4}

InitBounds ==
    /\ IdleExcept({"bnd"})
    /\ b_bounds \in BoundsArgs
    /\ b_initialState \in InitialStates
    /\ b_annulus_width \in AnnulusWidths
    /\ b_args = None
    /\ b_pc = "init"

\* lines 451-462: the side of the merge that derives the bounds
SamplerWithDerivedBounds ==
    /\ b_pc = "init"
    /\ b_args' = IF b_bounds = None
                 THEN DerivedBounds(b_initialState, b_annulus_width)
                 ELSE b_bounds
    /\ b_pc' = "sampler"
    /\ UNCHANGED <<b_bounds, b_initialState, b_annulus_width, driverVars,
                   evalVars, truncVars, grVars, sampVars, shapeVars,
                   confVars, ppVars, winVars>>

\* lines 465-468: the side of the merge that does not
SamplerWithGivenBounds ==
    /\ b_pc = "init"
    /\ b_args' = b_bounds
    /\ b_pc' = "sampler"
    /\ UNCHANGED <<b_bounds, b_initialState, b_annulus_width, driverVars,
                   evalVars, truncVars, grVars, sampVars, shapeVars,
                   confVars, ppVars, winVars>>

NextBounds == SamplerWithDerivedBounds \/ SamplerWithGivenBounds

SpecBounds == InitBounds /\ [][NextBounds]_vars

----------------------------------------------------------------------------
\* The unpacking of modelParameters in lnprior (lines 43-58) and lnlike
\* (lines 97-119), a statement at a time. A value of modelParameters is
\* [iterable, val]: a sequence val, or a number val[1] that cannot be
\* iterated (iterable = FALSE).

ModelParameterValues ==
    [iterable : {TRUE}, val : UNION {[1..n -> 0..MaxVal] : n \in 0..MaxLen}]
    \cup [iterable : {FALSE}, val : [1..1 -> 0..MaxVal]]

InitShape ==
    /\ IdleExcept({"shape"})
    /\ sh_fn \in {"lnprior", "lnlike"}
    /\ sh_params \in ModelParameterValues
    /\ sh_pc = "unpack"
    /\ sh_printed = FALSE
    /\ sh_raised = "none"

\* lines 44 and 98: r, theta, flux = modelParameters succeeds
UnpackBinds ==
    /\ sh_pc = "unpack"
    /\ sh_params.iterable /\ Len(sh_params.val) = 3
    /\ sh_pc' = IF sh_fn = "lnprior" THEN "bounds" ELSE "inject"
    /\ UNCHANGED <<sh_fn, sh_params, sh_printed, sh_raised, driverVars,
                   evalVars, truncVars, grVars, sampVars, bndVars, confVars,
                   ppVars, winVars>>

\* lines 44-46 and 98-100: unpacking a value that cannot be iterated raises
\* TypeError, which is caught: the message is printed and the function
\* goes on with r, theta and flux unbound
UnpackTypeErrorCaught ==
    /\ sh_pc = "unpack"
    /\ ~sh_params.iterable
    /\ sh_printed' = TRUE
    /\ sh_pc' = IF sh_fn = "lnprior" THEN "bounds" ELSE "inject"
    /\ UNCHANGED <<sh_fn, sh_params, sh_raised, driverVars, evalVars,
                   truncVars, grVars, sampVars, bndVars, confVars, ppVars, winVars>>

\* lines 44 and 98: unpacking a sequence of another length than 3 raises
\* ValueError, which no except clause catches
UnpackValueError ==
    /\ sh_pc = "unpack"
    /\ sh_params.iterable /\ Len(sh_params.val) # 3
    /\ sh_raised' = "unpacking"
    /\ sh_pc' = "raised"
    /\ UNCHANGED <<sh_fn, sh_params, sh_printed, driverVars, evalVars,
                   truncVars, grVars, sampVars, bndVars, confVars, ppVars, winVars>>

\* lines 48-51: the bounds are unpacked
lnpriorBounds ==
    /\ sh_pc = "bounds"
    /\ sh_pc' = "compare"
    /\ UNCHANGED <<sh_fn, sh_params, sh_printed, sh_raised, driverVars,
                   evalVars, truncVars, grVars, sampVars, bndVars, confVars,
                   ppVars, winVars>>

\* line 53: the comparison reads r, which is unbound: UnboundLocalError
lnpriorCompareUnbound ==
    /\ sh_pc = "compare"
    /\ sh_printed
    /\ sh_raised' = "comparison"
    /\ sh_pc' = "raised"
    /\ UNCHANGED <<sh_fn, sh_params, sh_printed, driverVars, evalVars,
                   truncVars, grVars, sampVars, bndVars, confVars, ppVars, winVars>>

\* lines 53-58
lnpriorReturn ==
    /\ sh_pc = "compare"
    /\ ~sh_printed
    /\ sh_pc' = "returned"
    /\ UNCHANGED <<sh_fn, sh_params, sh_printed, sh_raised, driverVars,
                   evalVars, truncVars, grVars, sampVars, bndVars, confVars,
                   ppVars, winVars>>

\* line 103: the arguments of inject_fcs_cube index modelParameters, which
\* a number does not support: TypeError
lnlikeInjectRaises ==
    /\ sh_pc = "inject"
    /\ ~sh_params.iterable
    /\ sh_raised' = "injection"
    /\ sh_pc' = "raised"
    /\ UNCHANGED <<sh_fn, sh_params, sh_printed, driverVars, evalVars,
                   truncVars, grVars, sampVars, bndVars, confVars, ppVars, winVars>>

\* lines 103-105
lnlikeInject ==
    /\ sh_pc = "inject"
    /\ sh_params.iterable
    /\ sh_pc' = "reduce"
    /\ UNCHANGED <<sh_fn, sh_params, sh_printed, sh_raised, driverVars,
                   evalVars, truncVars, grVars, sampVars, bndVars, confVars,
                   ppVars, winVars>>

\* lines 110-119
lnlikeReturn ==
    /\ sh_pc = "reduce"
    /\ sh_pc' = "returned"
    /\ UNCHANGED <<sh_fn, sh_params, sh_printed, sh_raised, driverVars,
                   evalVars, truncVars, grVars, sampVars, bndVars, confVars,
                   ppVars, winVars>>

NextShape ==
    \/ UnpackBinds
    \/ UnpackTypeErrorCaught
    \/ UnpackValueError
    \/ lnpriorBounds
    \/ lnpriorCompareUnbound
    \/ lnpriorReturn
    \/ lnlikeInjectRaises
    \/ lnlikeInject
    \/ lnlikeReturn

SpecShape == InitShape /\ [][NextShape]_vars

----------------------------------------------------------------------------
\* confidence, lines 784-868, on the histogram of one parameter. Bins are
\* indexed from 0 as in the code; bin i spans bin_vertices[i] to
\* bin_vertices[i+1]. cfd is in hundredths of a percent.

NBins == 4

MaxCount == 3

bins_width == 2

\* the counts n returned by plt.hist (line 850): the first and the last
\* bin hold the smallest and the largest sample
Histograms ==
    {h \in [0..(NBins - 1) -> 0..MaxCount] : h[0] >= 1 /\ h[NBins - 1] >= 1}

\* the values of cfd: the default of line 784, and 100
Cfds == {6827, 10000}

\* lines 833-834
EffectiveCfd(c) == IF c = 10000 THEN 9990 ELSE c

\* bin_vertices[i], with Python's meaning of the index -1
bin_vertices(i) == IF i < 0 THEN bins_width * (NBins + 1 + i)
                   ELSE bins_width * i

\* line 853: the orders np.argsort(n)[::-1] can return (the sort is not
\* stable, equal counts come in any order)
ArgSorts(n) ==
    {p \in [0..(NBins - 1) -> 0..(NBins - 1)] :
        /\ \A a, b \in 0..(NBins - 1) : a # b => p[a] # p[b]
        /\ \A a \in 0..(NBins - 2) : n[p[a]] >= n[p[a + 1]]}

RECURSIVE SumTo(_, _, _)
\* line 858: test after bins sort[0..kk] have been added, in units of
\* bins_width
SumTo(n, sort, kk) ==
    IF kk < 0 THEN 0 ELSE n[sort[kk]] + SumTo(n, sort, kk - 1)

\* line 852, in units of bins_width
surface_total(n) == SumTo(n, [i \in 0..(NBins - 1) |-> i], NBins - 1)

\* lines 859-860: pourcentage > cfd after bin sort[kk] has been added
Exceeds(n, sort, kk, c) == SumTo(n, sort, kk) * 10000 > c * surface_total(n)

\* lines 857-863: the value of k when the loop is left
LoopIndex(n, sort, c) ==
    IF \E kk \in 0..(NBins - 1) : Exceeds(n, sort, kk, c)
    THEN SetMin({kk \in 0..(NBins - 1) : Exceeds(n, sort, kk, c)})
    ELSE NBins - 1

\* line 864: n_arg_sort[:k].min()
n_arg_min(sort, kk) == SetMin({sort[i] : i \in 0..(kk - 1)})

\* line 865: n_arg_sort[:k+1].max()
n_arg_max(sort, kk) == SetMax({sort[i] : i \in 0..kk})

\* line 867, doubled: 2 * (bin_vertices[n_arg_sort[0]] + bins_width/2.)
ValMax2(sort) == 2 * bin_vertices(sort[0]) + bins_width

\* line 868, doubled
ConfidenceInterval2(sort, kk) ==
    <<2 * bin_vertices(n_arg_min(sort, kk) - 1) - ValMax2(sort),
      2 * bin_vertices(n_arg_max(sort, kk) + 1) - ValMax2(sort)>>

InitConf ==
    /\ IdleExcept({"conf"})
    /\ cf_n \in Histograms
    /\ cf_cfd \in Cfds
    /\ cf_sort = <<>>
    /\ cf_pc = "hist"
    /\ cf_val_max = 0
    /\ cf_interval = <<>>

\* lines 833-853
ArgSort ==
    /\ cf_pc = "hist"
    /\ cf_sort' \in ArgSorts(cf_n)
    /\ cf_cfd' = EffectiveCfd(cf_cfd)
    /\ cf_pc' = "accumulated"
    /\ UNCHANGED <<cf_n, cf_val_max, cf_interval, driverVars, evalVars,
                   truncVars, grVars, sampVars, bndVars, shapeVars, ppVars, winVars>>

\* lines 855-864: the tallest bin alone exceeds cfd, the loop is left with
\* k = 0 and n_arg_sort[:0].min() raises ValueError
IntervalRaises ==
    /\ cf_pc = "accumulated"
    /\ LoopIndex(cf_n, cf_sort, cf_cfd) = 0
    /\ cf_pc' = "raised"
    /\ UNCHANGED <<cf_n, cf_cfd, cf_sort, cf_val_max, cf_interval,
                   driverVars, evalVars, truncVars, grVars, sampVars,
                   bndVars, shapeVars, ppVars, winVars>>

\* lines 855-868
Interval ==
    /\ cf_pc = "accumulated"
    /\ LoopIndex(cf_n, cf_sort, cf_cfd) > 0
    /\ cf_val_max' = ValMax2(cf_sort)
    /\ cf_interval' =
           ConfidenceInterval2(cf_sort, LoopIndex(cf_n, cf_sort, cf_cfd))
    /\ cf_pc' = "done"
    /\ UNCHANGED <<cf_n, cf_cfd, cf_sort, driverVars, evalVars, truncVars,
                   grVars, sampVars, bndVars, shapeVars, ppVars, winVars>>

NextConf == ArgSort \/ IntervalRaises \/ Interval

SpecConf == InitConf /\ [][NextConf]_vars

----------------------------------------------------------------------------
\* PPMedianSub.run, src/vip_hci/objects/ppmediansub.py lines 126-147. The
\* helpers _get_dataset and _setup_parameters of PostProc and the routine
\* median_sub are defined in other modules of the package (postproc,
\* psfsub): they are modelled from what run's docstring and its calls say
\* of them. A dataset is a record
\* of the fields run reads and the number ny of rows of a frame; cube 0
\* stands for no dataset, fwhm 0 and wavelengths 0 for None.

NoDataset == [cube |-> 0, angles |-> 0, fwhm |-> 0, wavelengths |-> 0,
              ny |-> 0]

Datasets == [cube : {1, 2}, angles : {1}, fwhm : {0, 4},
             wavelengths : {0, 1}, ny : {3, 5}]

\* line 126: the dataset given to run, or else the one of the object
\* (lines 44-45, 109-110)
get_dataset(self_dataset, dataset_arg) ==
    IF dataset_arg # NoDataset THEN dataset_arg ELSE self_dataset

\* lines 131-140: the parameters of the object that median_sub takes
\* (here its mode) and those of add_params
setup_parameters(mode, dataset, full_output) ==
    [cube |-> dataset.cube, angle_list |-> dataset.angles,
     fwhm |-> dataset.fwhm, scale_list |-> dataset.wavelengths,
     nproc |-> 1, full_output |-> full_output, mode |-> mode]

\* the final image the routine computes from its parameters, of ny rows
Frame(params, ny) == [image |-> "frame_final", of |-> params, ny |-> ny]

\* lines 115-117, 142: with full_output the routine returns the residual
\* cube, the derotated one and the final image, without it the image only
median_sub(params, ny) ==
    IF params.full_output
    THEN <<[image |-> "cube_residuals", of |-> params, ny |-> ny],
           [image |-> "cube_residuals_der", of |-> params, ny |-> ny],
           Frame(params, ny)>>
    ELSE <<Frame(params, ny)>>

InitPP ==
    /\ IdleExcept({"pp"})
    /\ pp_self_dataset \in Datasets \cup {NoDataset}
    /\ pp_dataset_arg \in Datasets \cup {NoDataset}
    /\ pp_self_dataset # NoDataset \/ pp_dataset_arg # NoDataset
    /\ pp_mode \in {"fullfr", "annular"}
    /\ pp_full_output \in BOOLEAN
    /\ pp_results \in BOOLEAN
    /\ pp_pc = "run"
    /\ pp_dataset = NoDataset
    /\ pp_calls = <<>>
    /\ pp_res = <<>>
    /\ pp_frame_final = <<>>
    /\ pp_registered = <<>>

\* lines 126-129: fwhm is not set for the annular mode
FwhmNotSet ==
    /\ pp_pc = "run"
    /\ pp_dataset' = get_dataset(pp_self_dataset, pp_dataset_arg)
    /\ pp_mode = "annular" /\ pp_dataset'.fwhm = 0
    /\ pp_pc' = "raised fwhm"
    /\ UNCHANGED <<pp_self_dataset, pp_dataset_arg, pp_mode, pp_full_output,
                   pp_results, pp_calls, pp_res, pp_frame_final,
                   pp_registered, driverVars, evalVars, truncVars, grVars,
                   sampVars, bndVars, shapeVars, confVars, winVars>>

\* lines 126-142
CallRoutine ==
    /\ pp_pc = "run"
    /\ pp_dataset' = get_dataset(pp_self_dataset, pp_dataset_arg)
    /\ ~(pp_mode = "annular" /\ pp_dataset'.fwhm = 0)
    /\ LET func_params ==
               setup_parameters(pp_mode, pp_dataset', pp_full_output)
       IN  /\ pp_calls' = Append(pp_calls, func_params)
           /\ pp_res' = median_sub(func_params, pp_dataset'.ny)
    /\ pp_pc' = "called"
    /\ UNCHANGED <<pp_self_dataset, pp_dataset_arg, pp_mode, pp_full_output,
                   pp_results, pp_frame_final, pp_registered, driverVars,
                   evalVars, truncVars, grVars, sampVars, bndVars, shapeVars,
                   confVars, winVars>>

\* lines 144-147: the three outputs are stored
StoreOutputs ==
    /\ pp_pc = "called"
    /\ Len(pp_res) = 3
    /\ pp_frame_final' = pp_res[3]
    /\ pp_registered' =
           IF pp_results
           THEN <<[params |-> pp_calls[1], frame |-> pp_res[3]]>>
           ELSE pp_registered
    /\ pp_pc' = "done"
    /\ UNCHANGED <<pp_self_dataset, pp_dataset_arg, pp_mode, pp_full_output,
                   pp_results, pp_dataset, pp_calls, pp_res, driverVars,
                   evalVars, truncVars, grVars, sampVars, bndVars, shapeVars,
                   confVars, winVars>>

\* line 144: the result is the image alone, of other than 3 rows:
\* unpacking it into three names raises ValueError
StoreRaises ==
    /\ pp_pc = "called"
    /\ Len(pp_res) = 1 /\ pp_res[1].ny # 3
    /\ pp_pc' = "raised unpacking"
    /\ UNCHANGED <<pp_self_dataset, pp_dataset_arg, pp_mode, pp_full_output,
                   pp_results, pp_dataset, pp_calls, pp_res, pp_frame_final,
                   pp_registered, driverVars, evalVars, truncVars, grVars,
                   sampVars, bndVars, shapeVars, confVars, winVars>>

\* lines 144-147: the result is the image alone, of 3 rows: its rows are
\* what the three names receive
StoreRows ==
    /\ pp_pc = "called"
    /\ Len(pp_res) = 1 /\ pp_res[1].ny = 3
    /\ pp_frame_final' = [pp_res[1] EXCEPT !.image = "row 2 of frame_final"]
    /\ pp_registered' =
           IF pp_results
           THEN <<[params |-> pp_calls[1], frame |-> pp_frame_final']>>
           ELSE pp_registered
    /\ pp_pc' = "done"
    /\ UNCHANGED <<pp_self_dataset, pp_dataset_arg, pp_mode, pp_full_output,
                   pp_results, pp_dataset, pp_calls, pp_res, driverVars,
                   evalVars, truncVars, grVars, sampVars, bndVars, shapeVars,
                   confVars, winVars>>

NextPP == FwhmNotSet \/ CallRoutine \/ StoreOutputs \/ StoreRaises \/ StoreRows

SpecPP == InitPP /\ [][NextPP]_vars

----------------------------------------------------------------------------
\* gelman_rubin_from_chain, lines 222-255: the two windows of steps handed
\* to gelman_rubin, the same for every walker and parameter. burnin is in
\* tenths; for chains of up to MaxChainSteps + 1 steps floor(burnin*k) and
\* floor((1-burnin)*k*0.25) in double precision are the integer quotients
\* of Threshold0 and Threshold1.

MaxChainSteps == 18

\* burnin in [0, 1], in tenths
BurninTenths == 0..10

\* chains whose step i holds <<1, i, w>> for walker w
WindowChains == {TaggedChain(n, {}) : n \in 0..MaxChainSteps}

InitWindows ==
    /\ IdleExcept({"win"})
    /\ w_chain \in WindowChains
    /\ w_burnin \in BurninTenths
    /\ w_part1 = <<>>
    /\ w_part2 = <<>>
    /\ w_pc = "called"

\* lines 241-251, k = chain.shape[1]
gelman_rubin_from_chainCall ==
    /\ w_pc = "called"
    /\ w_part1' = Part1(w_chain, w_burnin, Len(w_chain))
    /\ w_part2' = Part2(w_chain, w_burnin, Len(w_chain))
    /\ w_pc' = "done"
    /\ UNCHANGED <<w_chain, w_burnin, driverVars, evalVars, truncVars,
                   grVars, sampVars, bndVars, shapeVars, confVars, ppVars>>

NextWindows == gelman_rubin_from_chainCall

SpecWindows == InitWindows /\ [][NextWindows]_vars

----------------------------------------------------------------------------
(* Properties *)

\* C1: the rhat_count_threshold-th Gelman-Rubin evaluation that passes in
\* a row declares convergence: as soon as that many evaluations (one at
\* least) have passed in a row, the convergence iteration is set.
C1_ThresholdthPassDeclares ==
    (streak >= 1 /\ streak >= rhat_count_threshold) => konvergence # Inf

\* C2: lnprob does not call lnlike when lnprior is -inf and returns -inf;
\* for parameters inside the bounds it calls lnlike exactly once and
\* returns lnprior + lnlike.
C2_PosteriorShortCircuit ==
    fn = "lnprob" =>
        /\ lp = NegInf => (lnlike_calls = 0 /\ out = NegInf)
        /\ (\A i \in 1..dim :
               /\ modelParameters[i] # NaN
               /\ bounds[i][1] <= modelParameters[i]
               /\ modelParameters[i] <= bounds[i][2])
           => (lnlike_calls = 1 /\ out = lp + lnlike_value)

\* C2 witness: an out-of-bounds proposal was rejected without calling lnlike
C2_Witness ==
    /\ fn = "lnprob"
    /\ lp = NegInf
    /\ lnlike_calls = 0
    /\ modelParameters[3] > bounds[3][2]
    /\ modelParameters[3] # NaN

\* C3: lnprior returns 0.0 when every parameter is inside its closed
\* interval, -inf when one of them is strictly outside, and nothing else.
C3_PriorClosedBounds ==
    fn = "lnprior" =>
        /\ (\A i \in 1..dim :
               /\ modelParameters[i] # NaN
               /\ bounds[i][1] <= modelParameters[i]
               /\ modelParameters[i] <= bounds[i][2])
           => out = 0
        /\ (\E i \in 1..dim :
               /\ modelParameters[i] # NaN
               /\ \/ modelParameters[i] < bounds[i][1]
                  \/ modelParameters[i] > bounds[i][2])
           => out = NegInf
        /\ out \in {0, NegInf}

\* C3 witness: lnprior returned 0.0 for parameters lying on their bounds
C3_Witness ==
    /\ fn = "lnprior"
    /\ out = 0
    /\ modelParameters[1] = bounds[1][1]
    /\ modelParameters[2] = bounds[2][2]
    /\ bounds[2][1] < bounds[2][2]

\* C4: as long as convergence is not declared, no more than
\* niteration_limit steps are recorded.
C4_LimitStopsRun ==
    konvergence = Inf => Recorded <= niteration_limit

\* C5: with niteration_min <= niteration_limit the Gelman-Rubin test is
\* never evaluated and convergence never declared at a step k with
\* k+1 < niteration_min, and the loop is never left with fewer than
\* niteration_min recorded steps.
C5_MinimumSteps ==
    niteration_min <= niteration_limit =>
        /\ \A t \in tested : t + 1 >= niteration_min
        /\ konvergence # Inf => konvergence + 1 >= niteration_min
        /\ pc \in {"after", "done"} => Recorded >= niteration_min

\* C5 witness: a check fired before niteration_min steps, no test was
\* evaluated there, and the run returned
C5_Witness ==
    /\ pc = "done"
    /\ niteration_min <= niteration_limit
    /\ \E f \in fired : f + 1 < niteration_min /\ f \notin tested
    /\ tested # {}

\* statements left to execute: 5 per step still to be yielded, plus those
\* left in the current step, plus the code after the loop
StatementsLeft ==
    IF pc \in {"done", "raised"} THEN 0
    ELSE IF pc = "after" THEN 1
    ELSE 5 * (niteration_limit + niteration_supp - (k + 1)) + 2
         + (CASE pc = "grow" -> 4 [] pc = "store" -> 3 [] pc = "check" -> 2
              [] pc = "brk" -> 1 [] OTHER -> 0)

\* C6: the step loop terminates and never records more than
\* niteration_limit + niteration_supp steps: every statement executed
\* strictly decreases a count that is never negative, and the number of
\* recorded steps stays within niteration_limit + niteration_supp.
C6_LoopTerminates ==
    /\ [][StatementsLeft' < StatementsLeft]_vars
    /\ [](/\ StatementsLeft >= 0
          /\ Recorded <= niteration_limit + niteration_supp)

\* C6 witness: a run that recorded all its steps and returned
C6_Witness ==
    /\ pc = "done"
    /\ niteration_supp > 0
    /\ Recorded = niteration_limit + niteration_supp
    /\ tested # {}

\* C7: no more than check_maxgap steps pass without a check firing.
C7_MaxGapBetweenChecks ==
    pc = "brk" => k - lastcheck <= check_maxgap

\* C8: the returned chain has as many steps as were recorded, and every
\* slot of the chain store beyond them holds zeros.
C8_ReturnedLengthIsRecorded ==
    pc = "done" =>
        /\ Len(ret) = Recorded
        /\ \A i \in (Recorded + 1)..Len(chain) : chain[i] = ZeroPos

\* C9: chain_zero_truncated applied to its own result returns it unchanged.
C9_TruncationIdempotent ==
    tcount = 2 => tchain = tprev

\* C9 witness: a chain that lost steps at the first truncation, among them
\* a filled one, was truncated a second time
C9_Witness ==
    /\ tcount = 2
    /\ tchain # <<>>
    /\ Len(tchain) + 1 < Len(tinput)
    /\ tinput[Len(tinput)] # ZeroPos

\* C10: the limit-reached report is emitted exactly for the runs that
\* recorded all niteration_limit + niteration_supp steps without
\* convergence having been declared.
C10_ReportOnlyWithoutConvergence ==
    pc = "done" =>
        (reported <=>
            (konvergence = Inf /\ Recorded = niteration_limit + niteration_supp))

\* C11: an I/O error raised while a checkpoint is written does not abort
\* the sampling loop: the run is never left by that error.
C11_CheckpointErrorDoesNotAbort ==
    ~(pc = "raised" /\ exc = "IOError at checkpoint")

C15_ResetWhenMinNotBelowLimit ==
    /\ itermin = IF niteration_min >= niteration_limit THEN 0
                 ELSE niteration_min
    /\ warned <=> niteration_min >= niteration_limit

\* C20: the growth step before step k is recorded doubles the capacity s of
\* the chain store exactly when k + 1 > s, keeping the entries and adding
\* zeros, and leaves the store unchanged otherwise.
C20_CapacityDoubles ==
    [][pc = "grow" =>
          IF k + 1 > Len(chain)
          THEN /\ Len(chain') = 2 * Len(chain)
               /\ SubSeq(chain', 1, Len(chain)) = chain
               /\ \A i \in (Len(chain) + 1)..Len(chain') :
                      chain'[i] = ZeroPos
          ELSE chain' = chain]_vars

\* C13: gelman_rubin raises for every array that has fewer than 2 chains
\* or is not 2-D, and returns a value only for a 2-D array of m >= 2 chains.
C13_RaisesUnlessTwoDimensional ==
    gr_result \notin {"idle", "pending"} =>
        IF Len(gr_shape) = 2 /\ gr_shape[1] >= 2
        THEN gr_result = "R"
        ELSE gr_result = "ValueError"

\* C14: with idxzero the first step at which walker 0's radial parameter is
\* zero (the number of steps if there is none) and
\* idx = min(floor(2e5/nwalkers), floor(0.1*idxzero)), the samples are the
\* steps idxzero-idx .. idxzero-1 of every walker when idx > 0 and the
\* steps 0 .. idxzero-1 when idx = 0; no step >= idxzero is among them.
C14_SamplesAreLastIdxSteps ==
    s_pc = "done" =>
        \E idxzero \in 0..Len(s_chain) :
            /\ \A i \in 0..(idxzero - 1) : s_chain[i + 1][1][1] # 0
            /\ idxzero < Len(s_chain) => s_chain[idxzero + 1][1][1] = 0
            /\ LET q1 == CHOOSE q \in 0..200000 :
                             q * s_nwalkers <= 200000
                             /\ 200000 < (q + 1) * s_nwalkers
                   q2 == CHOOSE q \in 0..idxzero :
                             10 * q <= idxzero /\ idxzero < 10 * (q + 1)
                   idx == IF q1 <= q2 THEN q1 ELSE q2
                   first == IF idx > 0 THEN idxzero - idx ELSE 0
               IN  /\ Len(s_isamples) = idxzero - first
                   /\ \A j \in 1..Len(s_isamples) :
                          /\ s_isamples[j] = s_chain[first + j]
                          /\ s_isamples[j][1][2] < idxzero

\* C14 witness: 50 walkers and 1000 filled steps gave 100 steps
C14_Witness ==
    /\ s_pc = "done"
    /\ s_nwalkers = 50
    /\ Len(s_chain) >= 1000
    /\ Len(s_isamples) = 100
    /\ s_isamples[1][1][2] >= 900

\* C16: the bounds handed to the posterior evaluator have lo <= hi for each
\* of the 3 parameters, and when the argument bounds is None they are
\* [r0 - width/2, r0 + width/2], [theta0 - 10, theta0 + 10], [0, 2*f0].
C16_BoundsOrdered ==
    b_pc = "sampler" =>
        /\ Len(b_args) = 3
        /\ \A i \in 1..Len(b_args) : b_args[i][1] <= b_args[i][2]
        /\ b_bounds = None =>
               b_args = DerivedBounds(b_initialState, b_annulus_width)

\* C17: for a model-parameter vector that is not a sequence of exactly 3
\* values, lnprior and lnlike raise at the unpacking: they go no further
\* than the unpacking, and no message is printed in place of the error.
C17_MalformedParametersFailAtUnpacking ==
    ~(sh_params.iterable /\ Len(sh_params.val) = 3) =>
        /\ sh_pc \in {"idle", "unpack", "raised"}
        /\ sh_pc = "raised" => sh_raised = "unpacking"
        /\ ~sh_printed

\* C18: confidence returns, for every histogram, the interval from the
\* lower edge of the lowest accumulated bin to the upper edge of the
\* highest accumulated bin, both relative to the center of the tallest
\* bin, the accumulated bins being the tallest ones in descending order of
\* count up to the one with which the area exceeds cfd; so the lower
\* offset is <= 0 and the upper one >= 0.
C18_IntervalSpansAccumulatedBins ==
    cf_pc \in {"raised", "done"} =>
        LET kk == LoopIndex(cf_n, cf_sort, cf_cfd)
            accumulated == {cf_sort[i] : i \in 0..kk}
            mode2 == 2 * bins_width * cf_sort[0] + bins_width
        IN  /\ cf_pc = "done"
            /\ cf_val_max = mode2
            /\ cf_interval =
                   <<2 * bins_width * SetMin(accumulated) - mode2,
                     2 * bins_width * (SetMax(accumulated) + 1) - mode2>>
            /\ cf_interval[1] <= 0 /\ 0 <= cf_interval[2]

\* C19: a run of PPMedianSub on a dataset (with fwhm set where the mode
\* needs it) calls the routine exactly once, with the dataset's cube,
\* angles, fwhm and wavelengths and the configured parameters, and ends
\* with frame_final equal to the image that the routine returns for them.
C19_WrapperStoresRoutineOutput ==
    pp_pc \in {"done", "raised unpacking"} =>
        LET params == [cube |-> pp_dataset.cube,
                       angle_list |-> pp_dataset.angles,
                       fwhm |-> pp_dataset.fwhm,
                       scale_list |-> pp_dataset.wavelengths,
                       nproc |-> 1,
                       full_output |-> pp_full_output,
                       mode |-> pp_mode]
        IN  /\ pp_calls = <<params>>
            /\ pp_pc = "done"
            /\ pp_frame_final = Frame(params, pp_dataset.ny)

\* C21: once convergence is declared at step kc the loop stops at the first
\* step k >= kc with k + 1 >= kc + niteration_supp, or at the last step
\* nIterations - 1 if that comes first, and niteration_supp further steps
\* (as many as the last step allows) are recorded after step kc.
C21_SupplementaryStepsConsumed ==
    (pc \in {"after", "done"} /\ konvergence # Inf) =>
        /\ stop = konvergence + niteration_supp
        /\ k >= konvergence
        /\ (k + 1 >= stop \/ k = nIterations - 1)
        /\ \A j \in konvergence..(k - 1) : j + 1 < stop
        /\ Recorded = k + 1
        /\ Recorded - (konvergence + 1) =
               Min(niteration_supp, nIterations - 1 - konvergence)

\* C22: chain_zero_truncated keeps the steps before the first step at which
\* walker 0's first parameter is exactly 0.0, all of them if there is none;
\* no other value of the chain has a part in it, so a filled step that
\* holds 0.0 there is dropped with every step after it.
C22_BoundaryIsFirstZeroOfWalker0 ==
    tcount = 1 =>
        \E idxzero \in 0..Len(tinput) :
            /\ \A i \in 0..(idxzero - 1) : tinput[i + 1][1][1] # 0
            /\ idxzero < Len(tinput) => tinput[idxzero + 1][1][1] = 0
            /\ tchain = SubSeq(tinput, 1, idxzero)

\* C22 witness: a step with zeros in other walkers and parameters was
\* kept, the step after it, filled but with 0.0 in walker 0's first
\* parameter, was dropped together with the filled step that follows it
C22_Witness ==
    /\ tcount = 1
    /\ Len(tinput) >= 3
    /\ Len(tchain) = 1
    /\ tinput[1][1][2] = 0 /\ tinput[1][nwalkers][1] = 0
    /\ tinput[2] # ZeroPos /\ tinput[2][1][1] = 0
    /\ tinput[3][1][1] # 0

\* C23: with k the number of steps of the chain, t0 = floor(burnin*k) and
\* t1 = floor((1-burnin)*k*0.25), gelman_rubin_from_chain compares the
\* steps t0 .. t0+t1-1 with the steps t0+3*t1 .. t0+4*t1-1: both windows
\* have t1 steps, 2*t1 steps lie between them, none of their steps is in
\* the burn-in prefix and t0 + 4*t1 <= k.
C23_WindowsAreSeparatedQuarters ==
    w_pc = "done" =>
        LET kk == Len(w_chain)
            t0 == CHOOSE t \in 0..kk :
                      10 * t <= w_burnin * kk /\ w_burnin * kk < 10 * (t + 1)
            t1 == CHOOSE t \in 0..kk :
                      /\ 40 * t <= (10 - w_burnin) * kk
                      /\ (10 - w_burnin) * kk < 40 * (t + 1)
        IN  /\ Len(w_part1) = t1 /\ Len(w_part2) = t1
            /\ \A i \in 1..t1 :
                   /\ w_part1[i] = w_chain[t0 + i]
                   /\ w_part2[i] = w_chain[t0 + 3 * t1 + i]
                   /\ w_part1[i][1][2] = t0 + i - 1
                   /\ w_part2[i][1][2] = t0 + 3 * t1 + i - 1
            /\ \A i, j \in 1..t1 : w_part2[j][1][2] - w_part1[i][1][2] > 2 * t1
            /\ t0 + 4 * t1 <= kk

\* C23 witness: a chain long enough for two windows of two steps each, with
\* a burn-in prefix
C23_Witness ==
    /\ w_pc = "done"
    /\ w_burnin = 3
    /\ Len(w_part1) = 2
    /\ Len(w_part2) = 2
    /\ w_part1[1][1][2] >= 3
    /\ w_part2[1][1][2] = w_part1[2][1][2] + 5

\* C24: once the convergence iteration and stop are set, the convergence
\* iteration, stop, rhat and the counter of consecutive passes never change
\* again, while the scheduled checks go on firing: at every step that
\* meets the criterion geom is incremented and lastcheck set to the step.
C24_ConvergenceDeclaredOnce ==
    /\ [][konvergence # Inf =>
              /\ konvergence' = konvergence
              /\ stop' = stop
              /\ rhat' = rhat
              /\ rhat_count' = rhat_count]_vars
    /\ [][(/\ konvergence # Inf
           /\ pc = "check"
           /\ k = Criterion(itermin, geom, lastcheck, check_maxgap)) =>
              /\ geom' = geom + 1
              /\ lastcheck' = k
              /\ fired' = fired \cup {k}
              /\ exc' = "none" => checkpoints' = Checkpointed(save, checkpoints, k)
              /\ tested' = tested]_vars
    /\ [](konvergence # Inf =>
              /\ konvergence \in tested
              /\ \A t \in tested : t <= konvergence
              /\ stop = konvergence + niteration_supp)

\* C24 witness: a run ended in which a check fired, and a checkpoint was
\* written, at a step after the one at which convergence was declared
C24_Witness ==
    /\ pc = "done"
    /\ konvergence # Inf
    /\ \E f \in checkpoints : f > konvergence

\* C25: for 1 <= niteration_min <= niteration_limit and check_maxgap >= 1,
\* after a check has fired at step k the next scheduled check step is
\* greater than k.
C25_ScheduleNeverStalls ==
    (/\ 1 <= niteration_min
     /\ niteration_min <= niteration_limit
     /\ check_maxgap >= 1
     /\ pc = "brk"
     /\ k \in fired) =>
        Criterion(itermin, geom, lastcheck, check_maxgap) > k

\* C26: after the growth step at step k the capacity of the chain store is
\* at least k + 1, so step k is written inside the store; the capacity
\* never decreases and the entries of the steps already recorded are never
\* changed.
C26_WriteInRangeAppendOnly ==
    /\ [](pc = "store" => k + 1 <= Len(chain))
    /\ [][pc = "store" => chain'[k + 1] = res /\ Len(chain') = Len(chain)]_vars
    /\ [][/\ Len(chain') >= Len(chain)
          /\ \A i \in 1..Recorded : chain'[i] = chain[i]]_vars

\* C26 witness: the store was grown twice and holds a step in its last
\* extension, with the steps recorded before in place
C26_Witness ==
    /\ pc = "check"
    /\ k >= 3
    /\ Len(chain) >= 9
    /\ chain[k + 1] = res
    /\ \A i \in 1..k : chain[i] \in Positions

\* C27: when the driver evaluates the Gelman-Rubin test at step k, the two
\* windows [t0, t0+t1) and [t0+3*t1, t0+4*t1) computed from k have the
\* same length and hold only steps of index below k, all of them filled:
\* they are what the same slices of the first k recorded steps give,
\* whatever the capacity of the store.
C27_WindowsInsideFilledPrefix ==
    (/\ pc = "check"
     /\ k = Criterion(itermin, geom, lastcheck, check_maxgap)
     /\ ShouldTest(k, itermin, konvergence)) =>
        LET filled == SubSeq(chain, 1, k)
            part1 == Part1(chain, burnin, k)
            part2 == Part2(chain, burnin, k)
        IN  /\ Len(part1) = Len(part2)
            /\ Len(part1) = Threshold1(burnin, k)
            /\ part1 = Part1(filled, burnin, k)
            /\ part2 = Part2(filled, burnin, k)
            /\ \A i \in 1..Len(part1) :
                   part1[i] \in Positions /\ part2[i] \in Positions

\* C27 witness: the test is evaluated on two windows of one step each
\* while the store has unfilled slots after step k
C27_Witness ==
    /\ pc = "check"
    /\ k = Criterion(itermin, geom, lastcheck, check_maxgap)
    /\ ShouldTest(k, itermin, konvergence)
    /\ Len(Part2(chain, burnin, k)) >= 1
    /\ Len(chain) > k + 1
    /\ chain[Len(chain)] = ZeroPos

============================================================================
